---- MODULE Spec2Model ----
(***************************************************************************)
(* OData_Conv: a read-only OData adapter over one upstream JSON            *)
(* collection.  The module models the request handler of the service       *)
(* (inbound Basic Auth gate, upstream fetch with its abort timer, the      *)
(* filter / order / skip / top / count pipeline), the record normalizer    *)
(* and the $filter parser, and states the properties checked on them.      *)
(*                                                                         *)
(* JavaScript strings are sequences of one-character strings, so that      *)
(* trimming, splitting, regular-expression matching, Number() and String() *)
(* are computed character by character.                                    *)
(***************************************************************************)
EXTENDS Integers, Sequences, FiniteSets, TLC

VARIABLES
  cfg,      \* process-wide configuration: ODATA_USER, ODATA_PASS (module constants)
  pc,       \* per request: position of the handler
  path,     \* per request: the route requested under /odata
  hdr,      \* per request: the Authorization header received
  query,    \* per request: req.query
  timer,    \* per request: whether the abort timer is armed
  nfetch,   \* per request: upstream fetch attempts made
  nresp,    \* per request: responses sent
  up,       \* per request: what the upstream did for this request's fetch
  res,      \* per request: the response sent
  rawItem,  \* normalizer run: the raw upstream record
  normOut,  \* normalizer run: the Record returned
  fInput,   \* parser run: the raw $filter value
  fResult,  \* parser run: the value returned
  pQuery,   \* pipeline run: req.query
  pData,    \* pipeline run: the parsed upstream JSON
  pRun      \* pipeline run: the stages' arrays and the response sent

vars == <<cfg, pc, path, hdr, query, timer, nfetch, nresp, up, res,
          rawItem, normOut, fInput, fResult, pQuery, pData, pRun>>

reqVars == <<cfg, pc, path, hdr, query, timer, nfetch, nresp, up, res>>

normVars == <<rawItem, normOut>>

parseVars == <<fInput, fResult>>

pipeVars == <<pQuery, pData, pRun>>

-----------------------------------------------------------------------------
(* Characters.                                                             *)

\* The printable ASCII characters in code order, from 32 (space) to 126
\* (code 96, the grave accent, is written "grave").
Ascii ==
  <<
    " ", "!", "\"", "#", "$", "%", "&", "'", "(", ")", "*", "+", ",", "-", ".", "/",
    "0", "1", "2", "3", "4", "5", "6", "7", "8", "9", ":", ";", "<", "=", ">", "?",
    "@", "A", "B", "C", "D", "E", "F", "G", "H", "I", "J", "K", "L", "M", "N", "O",
    "P", "Q", "R", "S", "T", "U", "V", "W", "X", "Y", "Z", "[", "\\", "]", "^", "_",
    "grave", "a", "b", "c", "d", "e", "f", "g", "h", "i", "j", "k", "l", "m", "n", "o",
    "p", "q", "r", "s", "t", "u", "v", "w", "x", "y", "z", "{", "|", "}", "~"
  >>

\* F applied to the value of e.  The value is computed once and bound to
\* F's parameter, whatever the number of times F reads it.
Bind(e, F(_)) == CHOOSE r \in {F(x) : x \in {e}} : TRUE

\* String.prototype.charCodeAt for the characters used (tab is 9).
CharCode(c) ==
  IF c = "\t" THEN 9
  ELSE IF \E i \in 1..95 : Ascii[i] = c
       THEN 31 + (CHOOSE i \in 1..95 : Ascii[i] = c)
       ELSE 65533

\* \d of the regular expressions.
Digit == {"0", "1", "2", "3", "4", "5", "6", "7", "8", "9"}

DigitVal(c) == CHOOSE n \in 0..9 : Ascii[17 + n] = c

\* [\w\d_] of the regular expressions: letters, digits, underscore.
WordChar ==
  {Ascii[i] : i \in (17..26) \cup (34..59) \cup {64} \cup (66..91)}

\* \s of the regular expressions and the characters trim() strips.
WhiteSpace == {" ", "\t"}

\* s.slice(i) for 0-based i in 0..Len(s).
Drop(s, i) == SubSeq(s, i + 1, Len(s))

\* s.slice(0, i) for 0-based i in 0..Len(s).
Take(s, i) == SubSeq(s, 1, i)

\* The number of leading characters of s that are in class C.
Span(s, C) ==
  CHOOSE n \in 0..Len(s) :
    /\ \A j \in 1..n : s[j] \in C
    /\ n < Len(s) => s[n + 1] \notin C

\* The number of trailing characters of s that are in class C.
SpanEnd(s, C) ==
  CHOOSE n \in 0..Len(s) :
    /\ \A j \in (Len(s) - n + 1)..Len(s) : s[j] \in C
    /\ n < Len(s) => s[Len(s) - n] \notin C

\* String.prototype.trim
Trim(s) ==
  Bind(Drop(s, Span(s, WhiteSpace)),
       LAMBDA t : Take(t, Len(t) - SpanEnd(t, WhiteSpace)))

\* String.prototype.startsWith
StartsWith(s, p) == Len(p) <= Len(s) /\ Take(s, Len(p)) = p

\* Every character of s is in class C.
AllIn(s, C) == \A i \in 1..Len(s) : s[i] \in C

\* The 0-based index of the first occurrence of character c in s, or Len(s).
IndexOf(s, c) ==
  CHOOSE n \in 0..Len(s) :
    /\ \A j \in 1..n : s[j] # c
    /\ n < Len(s) => s[n + 1] = c

\* String.prototype.split(c) for a one-character separator.
RECURSIVE Split(_, _)
Split(s, c) ==
  Bind(IndexOf(s, c),
       LAMBDA i : IF i = Len(s) THEN <<s>>
                  ELSE <<Take(s, i)>> \o Split(Drop(s, i + 1), c))

\* Array.prototype.join(c) on an array of strings.
RECURSIVE Join(_, _)
Join(parts, c) ==
  IF parts = <<>> THEN <<>>
  ELSE IF Len(parts) = 1 THEN parts[1]
  ELSE parts[1] \o <<c>> \o Join(Tail(parts), c)

\* The code-unit order of the relational operators on two strings: a < b.
\* The strings differ first at position i, where a ends or has the lower code.
StrLess(a, b) ==
  \E i \in 1..Len(b) :
    /\ i <= Len(a) + 1
    /\ \A j \in 1..(i - 1) : a[j] = b[j]
    /\ \/ i = Len(a) + 1
       \/ \E x \in {CharCode(a[i])}, y \in {CharCode(b[i])} : x < y

-----------------------------------------------------------------------------
(* JavaScript values.  Every value is a record of the same shape: t is the *)
(* type tag, s the characters of a string, and neg/int/frac the sign, the  *)
(* integer part and the fraction digits (no trailing zero) of a number.    *)

Val(t, s, neg, int, frac) ==
  [t |-> t, s |-> s, neg |-> neg, int |-> int, frac |-> frac]

Undef == Val("undefined", <<>>, FALSE, 0, <<>>)

Null == Val("null", <<>>, FALSE, 0, <<>>)

NaN == Val("nan", <<>>, FALSE, 0, <<>>)

Str(s) == Val("string", s, FALSE, 0, <<>>)

\* A query parameter given several times arrives as an array of strings; s is
\* what String() of the array gives, its elements joined by commas.
Arr(parts) == Val("array", Join(parts, ","), FALSE, 0, <<>>)

\* Fraction digits without their trailing zeros.
StripZeros(ds) ==
  Take(ds, CHOOSE n \in 0..Len(ds) :
             /\ \A j \in (n + 1)..Len(ds) : ds[j] = 0
             /\ n > 0 => ds[n] # 0)

\* A number from its sign, integer part and fraction digits; -0 equals 0.
Num(neg, int, frac) ==
  Bind(StripZeros(frac),
       LAMBDA f : Val("number", <<>>, neg /\ (int # 0 \/ f # <<>>), int, f))

IntNum(i) == Val("number", <<>>, i < 0, IF i < 0 THEN -i ELSE i, <<>>)

\* The value of the first n characters of a run of decimal digits.
RECURSIVE DigitsVal(_, _)
DigitsVal(ds, n) ==
  IF n = 0 THEN 0 ELSE 10 * DigitsVal(ds, n - 1) + DigitVal(ds[n])

\* The digits of a decimal literal u (sign removed) whose integer part has
\* ip digits: a number when the rest is empty or a point and digits.
DecimalValue(neg, u, ip) ==
  IF ip = Len(u)
  THEN IF ip > 0 THEN Num(neg, DigitsVal(u, ip), <<>>) ELSE NaN
  ELSE IF u[ip + 1] = "." /\ AllIn(Drop(u, ip + 1), Digit) /\ Len(u) > 1
  THEN Num(neg, DigitsVal(u, ip), [i \in 1..(Len(u) - ip - 1) |-> DigitVal(u[ip + 1 + i])])
  ELSE NaN

\* Number(string): the string is trimmed; the empty string is 0; a decimal
\* literal with an optional sign is its value; anything else is NaN.
\* (Exponents, hexadecimal and Infinity do not occur in the inputs modelled.)
StringToNumber(s) ==
  Bind(Trim(s),
       LAMBDA t :
         IF t = <<>> THEN IntNum(0)
         ELSE Bind(IF Head(t) \in {"+", "-"} THEN Tail(t) ELSE t,
                   LAMBDA u : DecimalValue(Head(t) = "-", u, Span(u, Digit))))

\* Number(v)
Number(v) ==
  CASE v.t = "number" -> v
    [] v.t = "null" -> IntNum(0)
    [] v.t \in {"string", "array"} -> StringToNumber(v.s)
    [] OTHER -> NaN

\* The decimal digits of a natural number.
RECURSIVE NatToString(_)
NatToString(n) ==
  IF n < 10 THEN <<Ascii[17 + n]>> ELSE NatToString(n \div 10) \o <<Ascii[17 + (n % 10)]>>

\* String(number) for the magnitudes modelled (no exponent form).
NumberToString(v) ==
  (IF v.neg THEN <<"-">> ELSE <<>>)
  \o NatToString(v.int)
  \o (IF v.frac = <<>> THEN <<>>
      ELSE <<".">> \o [i \in 1..Len(v.frac) |-> Ascii[17 + v.frac[i]]])

\* String(v)
String(v) ==
  CASE v.t \in {"string", "array"} -> v.s
    [] v.t = "number" -> NumberToString(v)
    [] v.t = "null" -> <<"n","u","l","l">>
    [] v.t = "undefined" -> <<"u","n","d","e","f","i","n","e","d">>
    [] OTHER -> <<"N","a","N">>

\* The truthiness test of `if (x)` and `!x`.
Truthy(v) ==
  CASE v.t = "string" -> v.s # <<>>
    [] v.t = "array" -> TRUE
    [] v.t = "number" -> v.int # 0 \/ v.frac # <<>>
    [] OTHER -> FALSE

\* a < b on fraction digit sequences of equal integer part: they differ
\* first at position i, where a ends or has the lower digit.
FracLess(a, b) ==
  \E i \in 1..Len(b) :
    /\ i <= Len(a) + 1
    /\ \A j \in 1..(i - 1) : a[j] = b[j]
    /\ (i = Len(a) + 1 \/ a[i] < b[i])

MagLess(x, y) == x.int < y.int \/ (x.int = y.int /\ FracLess(x.frac, y.frac))

\* x < y on two numbers (neither NaN).
NumLess(x, y) ==
  IF x.neg # y.neg THEN x.neg
  ELSE IF x.neg THEN MagLess(y, x)
  ELSE MagLess(x, y)

\* The relational operator a < b: two strings compare by code units; any
\* other pair compares as numbers, and is false when either side is NaN.
JsLess(a, b) ==
  IF a.t = "string" /\ b.t = "string" THEN StrLess(a.s, b.s)
  ELSE \E x \in {Number(a)}, y \in {Number(b)} :
         x.t = "number" /\ y.t = "number" /\ NumLess(x, y)

\* The relational operator a > b.
JsGreater(a, b) == JsLess(b, a)

\* a === b on the values the filter compares (a number or a string on the right).
StrictEq(a, b) == a.t = b.t /\ a.t # "nan" /\ a = b

-----------------------------------------------------------------------------
(* Type Normalizer.                                                        *)

\* The property names of the declared schema.
k_id == <<"i","d">>
k_outlet == <<"o","u","t","l","e","t">>
k_date == <<"d","a","t","e">>
k_day == <<"d","a","y">>
k_guest_count == <<"g","u","e","s","t","_","c","o","u","n","t">>
k_category == <<"c","a","t","e","g","o","r","y">>
k_quantity == <<"q","u","a","n","t","i","t","y">>
k_cost_price == <<"c","o","s","t","_","p","r","i","c","e">>
k_selling_price == <<"s","e","l","l","i","n","g","_","p","r","i","c","e">>
k_total_sales == <<"t","o","t","a","l","_","s","a","l","e","s">>
k_total_cost_price == <<"t","o","t","a","l","_","c","o","s","t","_","p","r","i","c","e">>
k_profit == <<"p","r","o","f","i","t">>

\* The 8 numeric and the 4 string properties.
NumericKeys ==
  {k_id, k_guest_count, k_quantity, k_cost_price, k_selling_price, k_total_sales,
   k_total_cost_price, k_profit}

StringKeys == {k_outlet, k_date, k_day, k_category}

SchemaKeys == NumericKeys \cup StringKeys

\* An element of the upstream array: an object with its own properties, or
\* a value that is no object (null), on which a property read throws.
RawObject(props) == [isObj |-> TRUE, props |-> props]

RawNull == [isObj |-> FALSE, props |-> <<>>]

\* item[k]: the property's value, undefined when the object has none.
Get(item, k) == IF k \in DOMAIN item.props THEN item.props[k] ELSE Undef

\* toNum without its test for the empty string: Number("") is 0.
toNumLoose(v) ==
  IF v = Null \/ v = Undef THEN Null ELSE Number(v)

\* const toNum = (v) => (v === null || v === undefined || v === "" ? null : Number(v))
toNum(v) ==
  IF v = Null \/ v = Undef \/ v = Str(<<>>) THEN Null ELSE Number(v)

\* v ?? null
NullCoalesce(v) == IF v = Null \/ v = Undef THEN Null ELSE v

\* normalizeItem(item), for an item that is an object.
normalizeItem(item) ==
  (k_id :> toNum(Get(item, k_id)))
  @@ (k_outlet :> NullCoalesce(Get(item, k_outlet)))
  @@ (k_date :> NullCoalesce(Get(item, k_date)))
  @@ (k_day :> NullCoalesce(Get(item, k_day)))
  @@ (k_guest_count :> toNum(Get(item, k_guest_count)))
  @@ (k_category :> NullCoalesce(Get(item, k_category)))
  @@ (k_quantity :> toNum(Get(item, k_quantity)))
  @@ (k_cost_price :> toNum(Get(item, k_cost_price)))
  @@ (k_selling_price :> toNum(Get(item, k_selling_price)))
  @@ (k_total_sales :> toNum(Get(item, k_total_sales)))
  @@ (k_total_cost_price :> toNum(Get(item, k_total_cost_price)))
  @@ (k_profit :> toNum(Get(item, k_profit)))

\* i[field] on a normalized Record.
Field(rec, k) == IF k \in DOMAIN rec THEN rec[k] ELSE Undef

-----------------------------------------------------------------------------
(* Filter Parser.                                                          *)

NoMatch == [ok |-> FALSE, field |-> <<>>, text |-> <<>>]

\* The common head of the three expressions, ^([\w\d_]+)\s+eq\s+ : the field
\* matched and the text left after the second run of whitespace.  fl is the
\* length of the field, w1 and w2 those of the two runs of whitespace.
MatchHead(s) ==
  Bind(Span(s, WordChar), LAMBDA fl :
    Bind(Span(Drop(s, fl), WhiteSpace), LAMBDA w1 :
      Bind(Drop(s, fl + w1), LAMBDA r2 :
        Bind(Span(Drop(r2, 2), WhiteSpace), LAMBDA w2 :
          IF fl >= 1 /\ w1 >= 1 /\ StartsWith(r2, <<"e","q">>) /\ w2 >= 1
          THEN [ok |-> TRUE, field |-> Take(s, fl), text |-> Drop(r2, 2 + w2)]
          ELSE NoMatch))))

\* filter.match(/^([\w\d_]+)\s+eq\s+'([^']*)'$/): m[1] and m[2].
MatchString(s) ==
  Bind(MatchHead(s), LAMBDA h :
    IF h.ok /\ Len(h.text) >= 2 /\ h.text[1] = "'" /\ h.text[Len(h.text)] = "'"
       /\ \A i \in 2..(Len(h.text) - 1) : h.text[i] # "'"
    THEN [ok |-> TRUE, field |-> h.field, text |-> SubSeq(h.text, 2, Len(h.text) - 1)]
    ELSE NoMatch)

\* filter.match(/^([\w\d_]+)\s+eq\s+([+-]?\d+(\.\d+)?)$/): m[1] and m[2].
MatchNumber(s) ==
  Bind(MatchHead(s), LAMBDA h :
    Bind(IF h.text # <<>> /\ Head(h.text) \in {"+", "-"} THEN Tail(h.text) ELSE h.text,
         LAMBDA u :
           Bind(Span(u, Digit), LAMBDA ip :
             IF h.ok /\ ip >= 1
                /\ \/ ip = Len(u)
                   \/ (u[ip + 1] = "." /\ Len(u) >= ip + 2 /\ AllIn(Drop(u, ip + 1), Digit))
             THEN [ok |-> TRUE, field |-> h.field, text |-> h.text]
             ELSE NoMatch)))

\* filter.match(/^([\w\d_]+)\s+eq\s+(\d{4}-\d{2}-\d{2})$/): m[1] and m[2].
MatchDate(s) ==
  Bind(MatchHead(s), LAMBDA h :
    IF h.ok /\ Len(h.text) = 10
       /\ \A i \in {1, 2, 3, 4, 6, 7, 9, 10} : h.text[i] \in Digit
       /\ h.text[5] = "-" /\ h.text[8] = "-"
    THEN [ok |-> TRUE, field |-> h.field, text |-> h.text]
    ELSE NoMatch)

\* What parseSimpleFilter gives back: null, one predicate, or a TypeError
\* thrown by filter.trim() when the parameter is not a string.
NoPredicate == [kind |-> "null", field |-> <<>>, value |-> Null, type |-> "none"]

Threw == [kind |-> "throw", field |-> <<>>, value |-> Null, type |-> "none"]

Predicate(field, value, type) ==
  [kind |-> "predicate", field |-> field, value |-> value, type |-> type]

\* parseSimpleFilter without filter.trim(): the expressions are anchored, so
\* a space before or after the expression would defeat them.
parseUntrimmed(filter) ==
  IF ~Truthy(filter) THEN NoPredicate
  ELSE IF filter.t # "string" THEN Threw
  ELSE Bind(MatchString(filter.s), LAMBDA m1 :
         IF m1.ok THEN Predicate(m1.field, Str(m1.text), "string")
         ELSE Bind(MatchNumber(filter.s), LAMBDA m2 :
                IF m2.ok THEN Predicate(m2.field, StringToNumber(m2.text), "number")
                ELSE Bind(MatchDate(filter.s), LAMBDA m3 :
                       IF m3.ok THEN Predicate(m3.field, Str(m3.text), "date")
                       ELSE NoPredicate)))

\* parseSimpleFilter(filter): filter.trim(), then the three expressions in
\* turn; the first that matches gives the predicate.
parseSimpleFilter(filter) ==
  IF ~Truthy(filter) THEN NoPredicate
  ELSE IF filter.t # "string" THEN Threw
  ELSE Bind(Trim(filter.s), LAMBDA f :
         Bind(MatchString(f), LAMBDA m1 :
           IF m1.ok THEN Predicate(m1.field, Str(m1.text), "string")
           ELSE Bind(MatchNumber(f), LAMBDA m2 :
                  IF m2.ok THEN Predicate(m2.field, StringToNumber(m2.text), "number")
                  ELSE Bind(MatchDate(f), LAMBDA m3 :
                         IF m3.ok THEN Predicate(m3.field, Str(m3.text), "date")
                         ELSE NoPredicate))))

-----------------------------------------------------------------------------
(* Responses.  keys is the set of properties of the JSON body; value, count *)
(* error and upstream are read only when their key is present.             *)

Response(status, keys, value, count, error, upstream, headers) ==
  [status |-> status, keys |-> keys, value |-> value, count |-> count,
   error |-> error, upstream |-> upstream, headers |-> headers]

\* No response sent yet.
NoResponse == Response(0, {}, <<>>, 0, "", 0, {})

\* res.status(code).json({ error: message })
ErrorResponse(code, message) == Response(code, {"error"}, <<>>, 0, message, 0, {})

\* res.status(500).json({ error: "Upstream API error", status: response.status })
UpstreamErrorResponse(status) ==
  Response(500, {"error", "status"}, <<>>, 0, "Upstream API error", status, {})

\* res.set('WWW-Authenticate', 'Basic realm="OData"'); res.status(401).json(...)
UnauthorizedResponse ==
  Response(401, {"error"}, <<>>, 0, "Unauthorized", 0, {"WWW-Authenticate: Basic realm=\"OData\""})

\* The response with "@odata.count" set by `if ($count)` instead of
\* `if ($count === "true")`: any non-empty $count would ask for the count.
ODataResponseTruthy(items, count) ==
  Bind(items, LAMBDA value :
    IF Truthy(count)
    THEN Response(200, {"@odata.context", "value", "@odata.count"}, value, Len(value), "", 0, {})
    ELSE Response(200, {"@odata.context", "value"}, value, 0, "", 0, {}))

\* res.json(odataResponse), with "@odata.count" set when $count === "true"
ODataResponse(items, count) ==
  Bind(items, LAMBDA value :
    IF count = Str(<<"t","r","u","e">>)
    THEN Response(200, {"@odata.context", "value", "@odata.count"}, value, Len(value), "", 0, {})
    ELSE Response(200, {"@odata.context", "value"}, value, 0, "", 0, {}))

-----------------------------------------------------------------------------
(* Query Pipeline.                                                         *)

\* req.query: each parameter is undefined, a string, or an array of strings.
Query(top, skip, orderby, filter, count) ==
  [top |-> top, skip |-> skip, orderby |-> orderby, filter |-> filter, count |-> count]

\* The filter callback: whether Record i is retained by predicate pf.
Retains(i, pf) ==
  LET val == Field(i, pf.field)
  IN  IF pf.type = "number" THEN StrictEq(Number(val), pf.value)
      ELSE IF pf.type = "date" THEN StartsWith(String(val), pf.value.s)
      ELSE String(val) = pf.value.s

\* items.filter(callback)
FilterItems(items, pf) == SelectSeq(items, LAMBDA i : Retains(i, pf))

\* The sort callback: dir when a[field] > b[field], -dir when a[field] < b[field], else 0.
Compare(a, b, field, dir) ==
  IF JsGreater(Field(a, field), Field(b, field)) THEN dir
  ELSE IF JsLess(Field(a, field), Field(b, field)) THEN -dir
  ELSE 0

\* Whether the callback is a consistent comparison function for these items
\* (ECMAScript: a strict weak ordering); when it is not, the order that
\* Array.prototype.sort leaves is implementation-defined.  c[i, j] is the
\* callback's result on items[i] and items[j].
ConsistentCompare(items, field, dir) ==
  \E c \in {[i \in 1..Len(items), j \in 1..Len(items) |->
               Compare(items[i], items[j], field, dir)] @@ <<>>} :
    \A a \in 1..Len(items), b \in 1..Len(items) :
      /\ (c[a, b] < 0) = (c[b, a] > 0)
      /\ \A x \in 1..Len(items) :
           /\ (c[a, b] = 0 /\ c[b, x] = 0) => c[a, x] = 0
           /\ (c[a, b] < 0 /\ c[b, x] < 0) => c[a, x] < 0

\* x placed after the elements of the sorted prefix that do not follow it.
RECURSIVE InsertItem(_, _, _, _)
InsertItem(sorted, x, field, dir) ==
  IF sorted = <<>> THEN <<x>>
  ELSE IF Compare(sorted[Len(sorted)], x, field, dir) > 0
       THEN InsertItem(Take(sorted, Len(sorted) - 1), x, field, dir) \o <<sorted[Len(sorted)]>>
       ELSE sorted \o <<x>>

\* The stable sort Array.prototype.sort performs with a consistent callback.
RECURSIVE StableSort(_, _, _)
StableSort(items, field, dir) ==
  IF items = <<>> THEN <<>>
  ELSE InsertItem(StableSort(Take(items, Len(items) - 1), field, dir),
                  items[Len(items)], field, dir)

\* The arrays items.sort(callback) can leave: the stable sort, or, with an
\* inconsistent callback, any arrangement of the same elements.
SortOutcomes(items, field, dir) ==
  IF ConsistentCompare(items, field, dir) THEN {StableSort(items, field, dir)}
  ELSE {[i \in 1..Len(items) |-> items[p[i]]] : p \in Permutations(1..Len(items))}

\* ToIntegerOrInfinity(Number(v)) as slice() applies it: NaN is 0, a fraction
\* is truncated toward zero.
ToInteger(v) ==
  Bind(Number(v), LAMBDA n :
    IF n.t # "number" THEN 0 ELSE IF n.neg THEN -n.int ELSE n.int)

\* A relative index of slice(): negative counts from the end, clamped to 0..len.
ClampIndex(k, len) ==
  IF k < 0 THEN (IF len + k < 0 THEN 0 ELSE len + k)
  ELSE IF k > len THEN len ELSE k

\* items.slice(start)
SliceFrom(items, start) ==
  Bind(start, LAMBDA k : SubSeq(items, ClampIndex(k, Len(items)) + 1, Len(items)))

\* items.slice(0, end)
SliceTo(items, end) ==
  Bind(end, LAMBDA k : SubSeq(items, 1, ClampIndex(k, Len(items))))

\* The upstream payload after response.json(): an array of elements, or
\* something that is not an array.
JsonArray(elems) == [isArray |-> TRUE, elems |-> elems]

JsonOther == [isArray |-> FALSE, elems |-> <<>>]

\* let items = Array.isArray(data) ? data : []
ItemsOf(data) == IF data.isArray THEN data.elems ELSE <<>>

\* if ($skip) items = items.slice(Number($skip))
ApplySkip(items, skip) ==
  IF Truthy(skip) THEN SliceFrom(items, ToInteger(skip)) ELSE items

\* if ($top) items = items.slice(0, Number($top))
ApplyTop(items, top) ==
  IF Truthy(top) THEN SliceTo(items, ToInteger(top)) ELSE items

\* const [field, direction] = $orderby.split(" "); const dir = direction === "desc" ? -1 : 1
OrderField(orderby) == Split(orderby.s, " ")[1]

OrderDir(orderby) ==
  Bind(Split(orderby.s, " "), LAMBDA parts :
    IF Len(parts) >= 2 /\ parts[2] = <<"d","e","s","c">> THEN -1 ELSE 1)

\* if ($orderby) { ... items.sort(...) }: the arrays the order stage can leave.
ApplyOrder(items, orderby) ==
  IF Truthy(orderby)
  THEN Bind(OrderField(orderby), LAMBDA field :
         Bind(OrderDir(orderby), LAMBDA dir : SortOutcomes(items, field, dir)))
  ELSE {items}

\* One run of the handler from `let data = await response.json()` to the
\* response: the Records kept by the filter stage, the array the order stage
\* left, and the response sent.
Run(kept, sorted, response) == [kept |-> kept, sorted |-> sorted, res |-> response]

\* The handler with the $skip and $top blocks moved above the $orderby
\* block: the page is cut from the filtered array and then sorted.
HandleDataPageFirst(q, data) ==
  IF \E i \in 1..Len(ItemsOf(data)) : ~ItemsOf(data)[i].isObj
  THEN {Run(<<>>, <<>>, ErrorResponse(500, "Cannot read properties of null (reading 'id')"))}
  ELSE Bind(parseSimpleFilter(q.filter), LAMBDA parsedFilter :
    IF parsedFilter.kind = "throw"
    THEN {Run(<<>>, <<>>, ErrorResponse(500, "filter.trim is not a function"))}
    ELSE IF Truthy(q.orderby) /\ q.orderby.t # "string"
    THEN {Run(<<>>, <<>>, ErrorResponse(500, "$orderby.split is not a function"))}
    ELSE Bind([i \in 1..Len(ItemsOf(data)) |-> normalizeItem(ItemsOf(data)[i])], LAMBDA items :
           Bind(IF parsedFilter.kind = "predicate" THEN FilterItems(items, parsedFilter) ELSE items,
                LAMBDA kept :
                  {Run(kept, sorted, ODataResponse(sorted, q.count)) :
                     sorted \in ApplyOrder(ApplyTop(ApplySkip(kept, q.skip), q.top), q.orderby)})))

\* The runs the handler can make for query q once the payload data has been
\* read.  A TypeError (an element that is no object, a $filter or $orderby
\* that is no string) is caught and answered 500 with the error's message.
HandleData(q, data) ==
  IF \E i \in 1..Len(ItemsOf(data)) : ~ItemsOf(data)[i].isObj
  THEN {Run(<<>>, <<>>, ErrorResponse(500, "Cannot read properties of null (reading 'id')"))}
  ELSE Bind(parseSimpleFilter(q.filter), LAMBDA parsedFilter :
    IF parsedFilter.kind = "throw"
    THEN {Run(<<>>, <<>>, ErrorResponse(500, "filter.trim is not a function"))}
    ELSE IF Truthy(q.orderby) /\ q.orderby.t # "string"
    THEN {Run(<<>>, <<>>, ErrorResponse(500, "$orderby.split is not a function"))}
    ELSE Bind([i \in 1..Len(ItemsOf(data)) |-> normalizeItem(ItemsOf(data)[i])], LAMBDA items :
           Bind(IF parsedFilter.kind = "predicate" THEN FilterItems(items, parsedFilter) ELSE items,
                LAMBDA kept :
                  {Run(kept, sorted,
                       ODataResponse(ApplyTop(ApplySkip(sorted, q.skip), q.top), q.count)) :
                     sorted \in ApplyOrder(kept, q.orderby)})))

-----------------------------------------------------------------------------
(* Inbound Basic Auth.                                                     *)

\* The base64 alphabet, in the order of the 6-bit values 0..63.
Base64Chars ==
  <<"A","B","C","D","E","F","G","H","I","J","K","L","M","N","O","P","Q","R","S","T","U","V","W","X","Y","Z","a","b","c","d","e","f","g","h","i","j","k","l","m","n","o","p","q","r","s","t","u","v","w","x","y","z","0","1","2","3","4","5","6","7","8","9","+","/">>

\* Buffer.from(string): the bytes of a string (one byte per ASCII character).
Bytes(s) == [i \in 1..Len(s) |-> CharCode(s[i])]

\* buffer.toString('utf8'): a byte that is no ASCII character decodes to U+FFFD.
ByteToChar(b) ==
  IF b = 9 THEN "\t"
  ELSE IF b >= 32 /\ b <= 126 THEN Ascii[b - 31]
  ELSE "U+FFFD"

BytesToString(bs) == [i \in 1..Len(bs) |-> ByteToChar(bs[i])]

\* buffer.toString('base64'): three bytes give four characters; a last group
\* of one or two bytes is padded with "=".
RECURSIVE Base64Encode(_)
Base64Encode(bs) ==
  LET c(n) == Base64Chars[n + 1]
  IN  IF bs = <<>> THEN <<>>
      ELSE IF Len(bs) = 1
        THEN <<c(bs[1] \div 4), c((bs[1] % 4) * 16), "=", "=">>
      ELSE IF Len(bs) = 2
        THEN <<c(bs[1] \div 4), c((bs[1] % 4) * 16 + bs[2] \div 16),
               c((bs[2] % 16) * 4), "=">>
      ELSE <<c(bs[1] \div 4), c((bs[1] % 4) * 16 + bs[2] \div 16),
             c((bs[2] % 16) * 4 + bs[3] \div 64), c(bs[3] % 64)>>
           \o Base64Encode(Drop(bs, 3))

\* The 6-bit values of the characters that are in the alphabet.
RECURSIVE Sextets(_)
Sextets(s) ==
  IF s = <<>> THEN <<>>
  ELSE IF \E n \in 1..64 : Base64Chars[n] = Head(s)
       THEN <<(CHOOSE n \in 1..64 : Base64Chars[n] = Head(s)) - 1>> \o Sextets(Tail(s))
       ELSE Sextets(Tail(s))

RECURSIVE SextetsToBytes(_)
SextetsToBytes(x) ==
  IF Len(x) < 2 THEN <<>>
  ELSE IF Len(x) = 2 THEN <<x[1] * 4 + x[2] \div 16>>
  ELSE IF Len(x) = 3
    THEN <<x[1] * 4 + x[2] \div 16, (x[2] % 16) * 16 + x[3] \div 4>>
  ELSE <<x[1] * 4 + x[2] \div 16, (x[2] % 16) * 16 + x[3] \div 4, (x[3] % 4) * 64 + x[4]>>
       \o SextetsToBytes(Drop(x, 4))

\* Buffer.from(string, 'base64'): decoding stops at the first "=", characters
\* outside the alphabet are skipped, and it never throws.
Base64Decode(s) == SextetsToBytes(Sextets(Take(s, IndexOf(s, "="))))

\* safeEqual with the comparison of the bytes left out: equal lengths only.
safeEqualLength(a, b) ==
  \E bufA \in {Bytes(String(a))}, bufB \in {Bytes(String(b))} : Len(bufA) = Len(bufB)

\* safeEqual(a, b): equal lengths and equal bytes.
safeEqual(a, b) ==
  \E bufA \in {Bytes(String(a))}, bufB \in {Bytes(String(b))} :
    IF Len(bufA) # Len(bufB) THEN FALSE
    ELSE \A i \in 1..Len(bufA) : bufA[i] = bufB[i]

\* The module-level configuration read from the environment.
Config(user, pass) == [ODATA_USER |-> user, ODATA_PASS |-> pass]

\* requireBasicAuth(req, res, next): TRUE when it calls next(), FALSE when it
\* answers 401 with the WWW-Authenticate challenge.
requireBasicAuth(c, auth) ==
  IF ~Truthy(c.ODATA_USER) \/ ~Truthy(c.ODATA_PASS) THEN TRUE
  ELSE IF ~Truthy(auth) \/ ~StartsWith(auth.s, <<"B","a","s","i","c"," ">>) THEN FALSE
  ELSE Bind(BytesToString(Base64Decode(Drop(auth.s, 6))), LAMBDA decoded :
         Bind(Split(decoded, ":"), LAMBDA split :
           /\ safeEqual(Str(Head(split)), c.ODATA_USER)
           /\ safeEqual(Str(Join(Tail(split), ":")), c.ODATA_PASS)))

-----------------------------------------------------------------------------
(* Inputs of the request handler.                                          *)

\* In-flight requests modelled.
NumReqs == 2

Reqs == 1..NumReqs

\* Records in the upstream collection of the sample payloads.
MaxRecs == 5

\* The record the sample upstream returns for transaction i.
SampleRecord(i) ==
  RawObject((k_id :> IntNum(i))
            @@ (k_outlet :> Str(IF i % 2 = 0 THEN <<"A","i","r","p","o","r","t">> ELSE <<"M","a","l","l">>))
            @@ (k_date :> Str(IF i % 2 = 0 THEN <<"2","0","2","5","-","0","8","-","0","1","T","1","0",":","0","0">> ELSE <<"2","0","2","5","-","0","8","-","0","2">>))
            @@ (k_quantity :> Str(NatToString(i % 3))))

\* Transactions 1..MaxRecs in id order.
DataInOrder == JsonArray([i \in 1..MaxRecs |-> SampleRecord(i)])

\* The same transactions in another order (odd ids first, descending).
DataShuffled ==
  JsonArray(SelectSeq([i \in 1..MaxRecs |-> SampleRecord(MaxRecs + 1 - i)],
                      LAMBDA x : x.props[k_outlet] = Str(<<"M","a","l","l">>))
            \o SelectSeq([i \in 1..MaxRecs |-> SampleRecord(i)],
                         LAMBDA x : x.props[k_outlet] = Str(<<"A","i","r","p","o","r","t">>)))

NoQuery == Query(Undef, Undef, Undef, Undef, Undef)

\* $orderby=id desc&$skip=1&$top=2&$count=true
PagedQuery == Query(Str(<<"2">>), Str(<<"1">>), Str(<<"i","d"," ","d","e","s","c">>), Undef, Str(<<"t","r","u","e">>))

ReqQueries == {NoQuery, PagedQuery}

ReqPayloads == {DataShuffled, JsonOther}

\* Statuses the upstream answers with.
UpstreamStatuses == {200, 503}

\* "Basic " followed by the base64 of the credentials, as a client builds it.
BasicHeader(cred) == Str(<<"B","a","s","i","c"," ">> \o Base64Encode(Bytes(cred)))

\* Authorization headers of the requests: none, and the right credentials.
ReqHeaders == {Undef, BasicHeader(<<"u",":","p">>)}

\* Configurations the service is started with: no inbound credentials, both.
Configs == {Config(Undef, Undef), Config(Str(<<"u">>), Str(<<"p">>))}

\* Authorization headers tried against the gate.
AuthHeaders ==
  {Undef, Str(<<>>), Str(<<"B","e","a","r","e","r"," ","d","T","p","w">>), Str(<<"b","a","s","i","c"," ","d","T","p","w">>), Str(<<"B","a","s","i","c">>),
   Str(<<"B","a","s","i","c"," ">>), BasicHeader(<<"u",":","p">>), BasicHeader(<<"u",":","x">>), BasicHeader(<<"x",":","p">>),
   BasicHeader(<<"u",":","p",":","q">>), BasicHeader(<<"u",":","p","p">>), BasicHeader(<<"u">>),
   BasicHeader(<<"u",":">>), BasicHeader(<<":","p">>), BasicHeader(<<"u","p",":">>)}

\* Configurations the gate is tried with: ODATA_USER and ODATA_PASS unset,
\* one of them unset or empty, both set.
AuthConfigs ==
  {Config(Undef, Undef), Config(Str(<<"u">>), Undef), Config(Undef, Str(<<"p">>)),
   Config(Str(<<"u">>), Str(<<>>)), Config(Str(<<"u">>), Str(<<"p">>)),
   Config(Str(<<"u">>), Str(<<"p",":","q">>))}

\* What the upstream did for a request's fetch: the status it answered with
\* (0 before it answers), how the fetch or the body failed, and the payload.
Upstream(status, failed, data) == [status |-> status, failed |-> failed, data |-> data]

NoUpstream == Upstream(0, "no", JsonOther)

\* res.set("Content-Type", "application/xml"); res.send(metadata)
MetadataResponse ==
  Response(200, {"edmx:Edmx"}, <<>>, 0, "", 0, {"Content-Type: application/xml"})

-----------------------------------------------------------------------------
(* The request handler.  A step is what runs between two awaits.           *)

\* normalizer run: not yet run.
NotNormalized == [done |-> FALSE, threw |-> FALSE, rec |-> <<>>]

\* parser run: not yet run.
NotParsed == [done |-> FALSE, val |-> NoPredicate]

\* pipeline run: not yet run.
NotRun == Run(<<>>, <<>>, NoResponse)

\* The variables of the pure-function runs, which no request touches.
pureVars == <<rawItem, normOut, fInput, fResult, pQuery, pData, pRun>>

\* A request arrives and the gate answers 401 with the challenge.
ReceiveUnauthorized(r, headers) ==
  /\ pc[r] = "idle"
  /\ \E h \in headers, p \in {"Transactions", "$metadata"} :
       /\ ~requireBasicAuth(cfg, h)
       /\ hdr' = [hdr EXCEPT ![r] = h]
       /\ path' = [path EXCEPT ![r] = p]
  /\ UNCHANGED query
  /\ res' = [res EXCEPT ![r] = UnauthorizedResponse]
  /\ nresp' = [nresp EXCEPT ![r] = @ + 1]
  /\ pc' = [pc EXCEPT ![r] = "done"]
  /\ UNCHANGED <<cfg, timer, nfetch, up, pureVars>>

\* A request for /odata/$metadata passes the gate and gets the document.
ReceiveMetadata(r, headers) ==
  /\ pc[r] = "idle"
  /\ \E h \in headers :
       /\ requireBasicAuth(cfg, h)
       /\ hdr' = [hdr EXCEPT ![r] = h]
  /\ path' = [path EXCEPT ![r] = "$metadata"]
  /\ res' = [res EXCEPT ![r] = MetadataResponse]
  /\ nresp' = [nresp EXCEPT ![r] = @ + 1]
  /\ pc' = [pc EXCEPT ![r] = "done"]
  /\ UNCHANGED <<cfg, query, timer, nfetch, up, pureVars>>

\* A request for /odata/Transactions passes the gate: the handler arms the
\* abort timer, calls fetch and awaits it.
ReceiveTransactions(r, headers) ==
  /\ pc[r] = "idle"
  /\ \E h \in headers, q \in ReqQueries :
       /\ requireBasicAuth(cfg, h)
       /\ hdr' = [hdr EXCEPT ![r] = h]
       /\ query' = [query EXCEPT ![r] = q]
  /\ path' = [path EXCEPT ![r] = "Transactions"]
  /\ timer' = [timer EXCEPT ![r] = TRUE]
  /\ nfetch' = [nfetch EXCEPT ![r] = @ + 1]
  /\ pc' = [pc EXCEPT ![r] = "fetching"]
  /\ UNCHANGED <<cfg, nresp, up, res, pureVars>>

\* The upstream answers with a status: fetch resolves, finally() clears the
\* timer; a status that is not ok is answered 500, otherwise the handler
\* awaits response.json().
UpstreamResponds(r) ==
  /\ pc[r] = "fetching"
  /\ timer' = [timer EXCEPT ![r] = FALSE]
  /\ \E s \in UpstreamStatuses :
       /\ up' = [up EXCEPT ![r] = Upstream(s, "no", JsonOther)]
       /\ IF s >= 200 /\ s <= 299
          THEN /\ pc' = [pc EXCEPT ![r] = "reading"]
               /\ UNCHANGED <<res, nresp>>
          ELSE /\ res' = [res EXCEPT ![r] = UpstreamErrorResponse(s)]
               /\ nresp' = [nresp EXCEPT ![r] = @ + 1]
               /\ pc' = [pc EXCEPT ![r] = "done"]
  /\ UNCHANGED <<cfg, path, hdr, query, nfetch, pureVars>>

\* A handler that would call fetch again when it rejects.
FetchFailsRetry(r) ==
  /\ pc[r] = "fetching"
  /\ nfetch[r] < 3
  /\ timer' = [timer EXCEPT ![r] = TRUE]
  /\ up' = [up EXCEPT ![r] = Upstream(0, "network", JsonOther)]
  /\ nfetch' = [nfetch EXCEPT ![r] = @ + 1]
  /\ UNCHANGED <<cfg, pc, path, hdr, query, nresp, res, pureVars>>

\* The fetch rejects (network failure): finally() clears the timer and the
\* catch block answers 500 with the error's message.
FetchFails(r) ==
  /\ pc[r] = "fetching"
  /\ timer' = [timer EXCEPT ![r] = FALSE]
  /\ up' = [up EXCEPT ![r] = Upstream(0, "network", JsonOther)]
  /\ res' = [res EXCEPT ![r] = ErrorResponse(500, "request to upstream failed")]
  /\ nresp' = [nresp EXCEPT ![r] = @ + 1]
  /\ pc' = [pc EXCEPT ![r] = "done"]
  /\ UNCHANGED <<cfg, path, hdr, query, nfetch, pureVars>>

\* The timer fires while fetch is pending: controller.abort() rejects the
\* fetch with an AbortError and the catch block answers 504.
TimerFires(r) ==
  /\ pc[r] = "fetching"
  /\ timer[r]
  /\ timer' = [timer EXCEPT ![r] = FALSE]
  /\ up' = [up EXCEPT ![r] = Upstream(0, "timeout", JsonOther)]
  /\ res' = [res EXCEPT ![r] = ErrorResponse(504, "Upstream timeout")]
  /\ nresp' = [nresp EXCEPT ![r] = @ + 1]
  /\ pc' = [pc EXCEPT ![r] = "done"]
  /\ UNCHANGED <<cfg, path, hdr, query, nfetch, pureVars>>

\* A handler that would keep req.query in a variable of the module, which
\* the request that arrived first has set: every request runs that query.
BodyArrivesShared(r) ==
  /\ pc[r] = "reading"
  /\ \E d \in ReqPayloads :
       /\ up' = [up EXCEPT ![r] = Upstream(@.status, "no", d)]
       /\ \E run \in HandleData(query[1], d) : res' = [res EXCEPT ![r] = run.res]
  /\ nresp' = [nresp EXCEPT ![r] = @ + 1]
  /\ pc' = [pc EXCEPT ![r] = "done"]
  /\ UNCHANGED <<cfg, path, hdr, query, timer, nfetch, pureVars>>

\* The body has been read and parsed: the rest of the handler runs to the
\* response without another await.
BodyArrives(r) ==
  /\ pc[r] = "reading"
  /\ \E d \in ReqPayloads :
       /\ up' = [up EXCEPT ![r] = Upstream(@.status, "no", d)]
       /\ \E run \in HandleData(query[r], d) : res' = [res EXCEPT ![r] = run.res]
  /\ nresp' = [nresp EXCEPT ![r] = @ + 1]
  /\ pc' = [pc EXCEPT ![r] = "done"]
  /\ UNCHANGED <<cfg, path, hdr, query, timer, nfetch, pureVars>>

\* response.json() rejects (the body is no JSON): the catch block answers
\* 500 with the error's message.
BodyFails(r) ==
  /\ pc[r] = "reading"
  /\ up' = [up EXCEPT ![r] = Upstream(@.status, "json", JsonOther)]
  /\ res' = [res EXCEPT ![r] = ErrorResponse(500, "invalid json response body")]
  /\ nresp' = [nresp EXCEPT ![r] = @ + 1]
  /\ pc' = [pc EXCEPT ![r] = "done"]
  /\ UNCHANGED <<cfg, path, hdr, query, timer, nfetch, pureVars>>

\* The pure-function variables when only requests run.
PureIdle ==
  /\ rawItem = RawNull
  /\ normOut = NotNormalized
  /\ fInput = Undef
  /\ fResult = NotParsed
  /\ pQuery = NoQuery
  /\ pData = JsonOther
  /\ pRun = NotRun

\* No request has arrived.
ReqIdle ==
  /\ pc = [r \in Reqs |-> "idle"]
  /\ path = [r \in Reqs |-> ""]
  /\ hdr = [r \in Reqs |-> Undef]
  /\ query = [r \in Reqs |-> NoQuery]
  /\ timer = [r \in Reqs |-> FALSE]
  /\ nfetch = [r \in Reqs |-> 0]
  /\ nresp = [r \in Reqs |-> 0]
  /\ up = [r \in Reqs |-> NoUpstream]
  /\ res = [r \in Reqs |-> NoResponse]

\* The service after app.listen(): a configuration, and no request yet.
Init ==
  /\ cfg \in Configs
  /\ ReqIdle
  /\ PureIdle

\* What request r can do next, its Authorization header drawn from headers.
Step(r, headers) ==
  \/ ReceiveUnauthorized(r, headers)
  \/ ReceiveMetadata(r, headers)
  \/ ReceiveTransactions(r, headers)
  \/ UpstreamResponds(r)
  \/ FetchFails(r)
  \/ TimerFires(r)
  \/ BodyArrives(r)
  \/ BodyFails(r)

Next == \E r \in Reqs : Step(r, ReqHeaders)

\* Requests arriving and running concurrently.
Spec == Init /\ [][Next]_vars

\* The timer callback is scheduled by the runtime: once armed it fires unless
\* it is cleared.  Nothing obliges the upstream to answer or to finish a body.
FairSpec == Spec /\ \A r \in Reqs : WF_vars(TimerFires(r))

-----------------------------------------------------------------------------
(* The inbound gate, tried with one request over every configuration and   *)
(* header.                                                                 *)

AuthInit ==
  /\ cfg \in AuthConfigs
  /\ ReqIdle
  /\ PureIdle

AuthNext == Step(1, AuthHeaders)

SpecAuth == AuthInit /\ [][AuthNext]_vars

-----------------------------------------------------------------------------
(* normalizeItem run on its own.                                           *)

\* Values a property of a raw record has in the upstream JSON.
RawValues ==
  {Null, Str(<<>>), Str(<<"7">>), Str(<<"-","2",".","5","0">>), Str(<<"M","a","l","l">>), IntNum(0), IntNum(12)}

\* A property name outside the declared schema.
k_extra == <<"r","e","m","a","r","k","s">>

RawKeys == SchemaKeys \cup {k_extra}

\* How many properties of a raw record differ from the others.
MaxOverrides == 1

\* The raw records tried: every property absent or of one value, but for at
\* most MaxOverrides properties that are absent or of another value.
RawItems ==
  {RawNull} \cup
  {RawObject([k \in {x \in RawKeys : (IF x \in DOMAIN o THEN o[x] ELSE b) # Undef}
                |-> IF k \in DOMAIN o THEN o[k] ELSE b]) :
     b \in RawValues \cup {Undef},
     o \in UNION {[ks -> RawValues \cup {Undef}] :
                    ks \in {s \in SUBSET RawKeys : Cardinality(s) <= MaxOverrides}}}

NormalizeInit ==
  /\ cfg = Config(Undef, Undef)
  /\ ReqIdle
  /\ rawItem \in RawItems
  /\ normOut = NotNormalized
  /\ fInput = Undef
  /\ fResult = NotParsed
  /\ pQuery = NoQuery
  /\ pData = JsonOther
  /\ pRun = NotRun

\* items.map(normalizeItem) on one element: the Record, or the TypeError of
\* reading a property of null.
Normalize ==
  /\ ~normOut.done
  /\ normOut' = IF rawItem.isObj
                THEN [done |-> TRUE, threw |-> FALSE, rec |-> normalizeItem(rawItem)]
                ELSE [done |-> TRUE, threw |-> TRUE, rec |-> <<>>]
  /\ UNCHANGED <<reqVars, rawItem, parseVars, pipeVars>>

SpecNormalize == NormalizeInit /\ [][Normalize]_vars

-----------------------------------------------------------------------------
(* parseSimpleFilter run on its own.                                       *)

\* Spaces tried around a filter expression.
MaxPad == 1

Spaces(n) == [i \in 1..n |-> " "]

FilterFields == {<<"i","d">>, <<"o","_","1">>, <<"a","-","b">>, <<>>}

FilterGaps == {<<" ">>, <<" ","\t">>, <<>>}

FilterOps == {<<"e","q">>, <<"E","Q">>}

FilterValues ==
  {<<"'","M","a","l","l","'">>, <<"'","'">>, <<"'","a","'","b","'">>, <<"'","x"," ","y","'">>, <<"5">>, <<"-","4",".","5","0">>, <<"+","7">>, <<"5",".">>,
   <<".","5">>, <<"1","e","3">>, <<"2","0","2","5","-","0","8","-","0","1">>, <<"2","0","2","5","-","8","-","1">>, <<"a","b","c">>, <<>>}

\* The raw $filter values tried: none, the empty string, spaces only, a
\* repeated parameter, and the strings field gap op gap value with up to
\* MaxPad spaces on either side.
FilterInputs ==
  {Undef, Str(<<>>), Str(<<" "," ">>), Arr(<<<<"i","d"," ","e","q"," ","1">>, <<"i","d"," ","e","q"," ","2">>>>)} \cup
  {Str(Spaces(a) \o f \o g1 \o op \o g2 \o v \o Spaces(b)) :
     a \in 0..MaxPad, b \in 0..MaxPad, f \in FilterFields, g1 \in FilterGaps,
     op \in FilterOps, g2 \in FilterGaps, v \in FilterValues}

ParseInit ==
  /\ cfg = Config(Undef, Undef)
  /\ ReqIdle
  /\ rawItem = RawNull
  /\ normOut = NotNormalized
  /\ fInput \in FilterInputs
  /\ fResult = NotParsed
  /\ pQuery = NoQuery
  /\ pData = JsonOther
  /\ pRun = NotRun

\* const parsedFilter = parseSimpleFilter($filter)
Parse ==
  /\ ~fResult.done
  /\ fResult' = [done |-> TRUE, val |-> parseSimpleFilter(fInput)]
  /\ UNCHANGED <<reqVars, normVars, fInput, pipeVars>>

SpecParse == ParseInit /\ [][Parse]_vars

-----------------------------------------------------------------------------
(* The pipeline run on its own, from the parsed payload to the response.   *)

\* Three records with values missing: no id and a null outlet among them.
DataMixed ==
  JsonArray(<<RawObject((k_id :> IntNum(1)) @@ (k_outlet :> Str(<<"M","a","l","l">>))),
              RawObject((k_outlet :> Null) @@ (k_date :> Str(<<"2","0","2","5","-","0","8","-","0","1">>))),
              RawObject((k_id :> Str(<<>>)) @@ (k_outlet :> Str(<<"A","i","r","p","o","r","t">>)))>>)

\* An array with an element that is no object.
DataNullElement == JsonArray(<<SampleRecord(1), RawNull>>)

PipeData == {DataInOrder, DataShuffled, DataMixed, DataNullElement, JsonOther}

PipeFilters ==
  {Undef, Str(<<"o","u","t","l","e","t"," ","e","q"," ","'","M","a","l","l","'">>), Str(<<"i","d"," ","e","q"," ","0">>), Str(<<"d","a","t","e"," ","e","q"," ","2","0","2","5","-","0","8","-","0","1">>),
   Str(<<"o","u","t","l","e","t"," ","e","q"," ","'","n","u","l","l","'">>), Str(<<"r","e","m","a","r","k","s"," ","e","q"," ","'","u","n","d","e","f","i","n","e","d","'">>), Str(<<"o","u","t","l","e","t"," ","="," ","'","M","a","l","l","'">>),
   Arr(<<<<"i","d"," ","e","q"," ","1">>, <<"i","d"," ","e","q"," ","2">>>>)}

PipeOrders ==
  {Undef, Str(<<"i","d">>), Str(<<"i","d"," ","d","e","s","c">>), Str(<<"i","d"," ","D","E","S","C">>), Str(<<"q","u","a","n","t","i","t","y"," ","d","e","s","c">>),
   Str(<<"o","u","t","l","e","t">>), Str(<<"r","e","m","a","r","k","s">>), Arr(<<<<"i","d">>, <<"d","a","t","e">>>>)}

PipeSkips ==
  {Undef, Str(<<"0">>), Str(<<"1">>), Str(NatToString(MaxRecs)), Str(<<"a","b","c">>), Str(<<"-","2">>),
   Arr(<<<<"1">>, <<"2">>>>)}

PipeTops == {Undef, Str(<<"0">>), Str(<<"2">>), Str(<<"a","b","c">>), Str(<<"-","1">>)}

PipeCounts == {Undef, Str(<<"t","r","u","e">>), Str(<<"T","r","u","e">>)}

PipelineInit ==
  /\ cfg = Config(Undef, Undef)
  /\ ReqIdle
  /\ rawItem = RawNull
  /\ normOut = NotNormalized
  /\ fInput = Undef
  /\ fResult = NotParsed
  /\ pQuery \in {Query(t, s, o, f, c) :
                   t \in PipeTops, s \in PipeSkips, o \in PipeOrders, f \in PipeFilters,
                   c \in PipeCounts}
  /\ pData \in PipeData
  /\ pRun = NotRun

\* The handler from `let items = ...` to res.json(), or to the catch block.
RunPipeline ==
  /\ pRun = NotRun
  /\ pRun' \in HandleData(pQuery, pData)
  /\ UNCHANGED <<reqVars, normVars, parseVars, pQuery, pData>>

SpecPipeline == PipelineInit /\ [][RunPipeline]_vars

-----------------------------------------------------------------------------
(* Properties of the pipeline (SpecPipeline).                              *)

\* The pipeline run has been made.
PipelineDone == pRun.res.status # 0

\* A $skip or $top that is absent or the decimal numeral of a count.
IsCount(v) ==
  v = Undef \/ (v.t = "string" /\ \E n \in 0..(2 * MaxRecs) : NatToString(n) = v.s)

CountOf(v) == CHOOSE n \in 0..(2 * MaxRecs) : NatToString(n) = v.s

\* The query's parameters are absent or well formed, and the payload is an
\* array of objects or no array.
WellFormedRun ==
  /\ \A i \in 1..Len(ItemsOf(pData)) : ItemsOf(pData)[i].isObj
  /\ pQuery.filter = Undef
       \/ (pQuery.filter.t = "string" /\ parseSimpleFilter(pQuery.filter).kind = "predicate")
  /\ pQuery.orderby = Undef \/ (pQuery.orderby.t = "string" /\ pQuery.orderby.s # <<>>)
  /\ IsCount(pQuery.skip)
  /\ IsCount(pQuery.top)

\* Reference, stage 1: the normalized records the predicate retains.
RefFilter ==
  LET all == [i \in 1..Len(ItemsOf(pData)) |-> normalizeItem(ItemsOf(pData)[i])]
  IN  IF pQuery.filter = Undef THEN all
      ELSE SelectSeq(all, LAMBDA rec : Retains(rec, parseSimpleFilter(pQuery.filter)))

\* The field named by $orderby: the text before its first space.
RefOrderField ==
  LET o == pQuery.orderby.s
      sp == {i \in 1..Len(o) : o[i] = " "}
  IN  IF sp = {} THEN o ELSE SubSeq(o, 1, (CHOOSE i \in sp : \A j \in sp : i <= j) - 1)

\* The direction is descending only when the token after the first space is
\* exactly desc.
RefDescending ==
  LET o == pQuery.orderby.s
  IN  \E k \in 1..Len(o) :
        /\ o[k] = " "
        /\ \A i \in 1..(k - 1) : o[i] # " "
        /\ Len(o) >= k + 4
        /\ SubSeq(o, k + 1, k + 4) = <<"d", "e", "s", "c">>
        /\ (Len(o) = k + 4 \/ o[k + 5] = " ")

\* The sort keys of the records of s, in the order of s.
RefKeys(s) == [i \in 1..Len(s) |-> Field(s[i], RefOrderField)] @@ <<>>

\* before[a, b]: the record with key keys[a] goes before the one with key
\* keys[b] in the requested direction.
RefBefore(keys) ==
  [a \in 1..Len(keys), b \in 1..Len(keys) |->
     IF RefDescending THEN JsGreater(keys[a], keys[b]) ELSE JsLess(keys[a], keys[b])] @@ <<>>

\* The keys are totally preordered by < and >: going before is asymmetric
\* and transitive, a > b is b < a, and being equal is transitive.
RefComparable(keys, before) ==
  \A a \in 1..Len(keys), b \in 1..Len(keys) :
    /\ ~(before[a, b] /\ before[b, a])
    /\ JsLess(keys[a], keys[b]) = JsGreater(keys[b], keys[a])
    /\ \A c \in 1..Len(keys) :
         /\ (before[a, b] /\ before[b, c]) => before[a, c]
         /\ (~before[a, b] /\ ~before[b, a] /\ ~before[b, c] /\ ~before[c, b])
              => (~before[a, c] /\ ~before[c, a])

\* Reference, stage 2: record i of s takes the place after the records that
\* go before it and the equal ones that precede it in s.
RefOrder(s, before) ==
  LET rank(i) == 1 + Cardinality({j \in 1..Len(s) : before[j, i] \/ (~before[i, j] /\ j < i)})
  IN  [r \in 1..Len(s) |-> s[CHOOSE i \in 1..Len(s) : rank(i) = r]]

\* Reference, stages 3 and 4: the records after the first $skip, and of
\* those the first $top.
RefPage(s) ==
  LET sk == IF pQuery.skip = Undef THEN 0 ELSE CountOf(pQuery.skip)
      rest == IF sk >= Len(s) THEN 0 ELSE Len(s) - sk
      n == IF pQuery.top = Undef \/ CountOf(pQuery.top) > rest THEN rest
           ELSE CountOf(pQuery.top)
  IN  [i \in 1..n |-> s[sk + i]]

\* The ids of a list of records.
Ids(s) == [i \in 1..Len(s) |-> s[i][k_id]]

\* C1: for well-formed parameters, present or absent in any combination, the
\* value of the 200 response is the reference result of filter, then order
\* (descending only for the token desc), then skip, then top; a skip of at
\* least the length of the ordered list gives the empty list.  Where the sort
\* keys are not totally preordered (null or NaN among strings), the value is
\* the page of some arrangement of the filtered records.
C1_PipelineOrder ==
  (PipelineDone /\ WellFormedRun) =>
    \E kept \in {RefFilter} :
      /\ pRun.res.status = 200
      /\ "value" \in pRun.res.keys
      /\ IF pQuery.orderby = Undef THEN pRun.res.value = RefPage(kept)
         ELSE \E keys \in {RefKeys(kept)} : \E before \in {RefBefore(keys)} :
                IF RefComparable(keys, before)
                THEN pRun.res.value = RefPage(RefOrder(kept, before))
                ELSE \E p \in Permutations(1..Len(kept)) :
                       pRun.res.value = RefPage([i \in 1..Len(kept) |-> kept[p[i]]])
      /\ (pQuery.skip # Undef /\ CountOf(pQuery.skip) >= Len(kept)) => pRun.res.value = <<>>

\* C1 witness: ids 1..5 with $orderby=id desc, $skip=1, $top=2 give ids 4, 3.
C1_Witness ==
  /\ PipelineDone
  /\ pData = DataInOrder
  /\ pQuery = Query(Str(<<"2">>), Str(<<"1">>), Str(<<"i", "d", " ", "d", "e", "s", "c">>),
                    Undef, Undef)
  /\ Ids(pRun.res.value) = <<IntNum(MaxRecs - 1), IntNum(MaxRecs - 2)>>

\* C2: in every 200 response "@odata.count" is present exactly when $count
\* is the string true, and then it is the length of the returned value, the
\* count after filter, order, skip and top.
C2_CountAfterPaging ==
  (PipelineDone /\ pRun.res.status = 200) =>
    /\ ("@odata.count" \in pRun.res.keys) = (pQuery.count = Str(<<"t", "r", "u", "e">>))
    /\ "@odata.count" \in pRun.res.keys => pRun.res.count = Len(pRun.res.value)

\* C2 witness: MaxRecs records with $top=2 and $count=true give a value of
\* length 2 and a count of 2, not MaxRecs.
C2_Witness ==
  /\ PipelineDone
  /\ pData = DataInOrder
  /\ pQuery = Query(Str(<<"2">>), Undef, Undef, Undef, Str(<<"t", "r", "u", "e">>))
  /\ Len(pRun.kept) = MaxRecs
  /\ Len(pRun.res.value) = 2
  /\ pRun.res.count = 2

\* The query with one parameter left out.
Without(q, param) == [q EXCEPT ![param] = Undef]

\* The values the handler returns for query q on the payload of the run.
ValuesFor(q) == {run.res.value : run \in {x \in HandleData(q, pData) : x.res.status = 200}}

\* A $skip or $top that is not numeric, negative, or repeated.
MalformedCount(v) ==
  v # Undef /\ (v.t = "array" \/ Number(v).t = "nan" \/ (Number(v).t = "number" /\ Number(v).neg))

\* A $filter outside the grammar, or repeated.
MalformedFilter(v) ==
  v # Undef /\ (v.t = "array" \/ parseSimpleFilter(v).kind = "null")

\* An $orderby that names no field of the schema, or repeated.
MalformedOrder(v) ==
  v # Undef /\ (v.t = "array" \/ Split(v.s, " ")[1] \notin SchemaKeys)

\* C8: a malformed parameter is never an error and is a no-op for its own
\* clause: the response is 200 and its value is that of the same request
\* without the parameter (for $top, also that of $top=0).
C8_MalformedIsNoOp ==
  (PipelineDone /\ \A i \in 1..Len(ItemsOf(pData)) : ItemsOf(pData)[i].isObj) =>
    /\ MalformedFilter(pQuery.filter) =>
         (pRun.res.status = 200 /\ pRun.res.value \in ValuesFor(Without(pQuery, "filter")))
    /\ MalformedOrder(pQuery.orderby) =>
         (pRun.res.status = 200 /\ pRun.res.value \in ValuesFor(Without(pQuery, "orderby")))
    /\ MalformedCount(pQuery.skip) =>
         (pRun.res.status = 200 /\ pRun.res.value \in ValuesFor(Without(pQuery, "skip")))
    /\ MalformedCount(pQuery.top) =>
         (pRun.res.status = 200
          /\ pRun.res.value \in ValuesFor(Without(pQuery, "top"))
                                  \cup ValuesFor([pQuery EXCEPT !["top"] = Str(<<"0">>)]))

\* C10: the filter stage retains no record without a value to compare: every
\* record kept has a non-null value in the predicate's field.
C10_FilterDropsNullValued ==
  (PipelineDone /\ pRun.res.status = 200
   /\ pQuery.filter.t = "string" /\ parseSimpleFilter(pQuery.filter).kind = "predicate") =>
    \A i \in 1..Len(pRun.kept) :
      Field(pRun.kept[i], parseSimpleFilter(pQuery.filter).field) \notin {Null, Undef}

-----------------------------------------------------------------------------
(* Properties of normalizeItem (SpecNormalize).                            *)

\* C3: for every raw record that is a mapping, normalizeItem returns a
\* record whose keys are exactly the 12 declared ones; a numeric field is
\* null when the input is absent, null or the empty string, and is never a
\* string; a string field is the raw value when present and null otherwise;
\* no extra property of the input appears.
C3_NormalizeShape ==
  (normOut.done /\ rawItem.isObj) =>
    /\ ~normOut.threw
    /\ DOMAIN normOut.rec = SchemaKeys
    /\ Cardinality(DOMAIN normOut.rec) = 12
    /\ k_extra \notin DOMAIN normOut.rec
    /\ \A k \in NumericKeys :
         /\ (k \notin DOMAIN rawItem.props \/ rawItem.props[k] \in {Null, Str(<<>>)})
              => normOut.rec[k] = Null
         /\ normOut.rec[k].t \in {"null", "number", "nan"}
    /\ \A k \in StringKeys :
         normOut.rec[k] = IF k \in DOMAIN rawItem.props THEN rawItem.props[k] ELSE Null

\* C3 witness: a record with an extra property, an empty-string id and no
\* outlet has been normalized: id and outlet are null.
C3_Witness ==
  /\ normOut.done
  /\ rawItem.isObj
  /\ k_extra \in DOMAIN rawItem.props
  /\ k_outlet \notin DOMAIN rawItem.props
  /\ Get(rawItem, k_id) = Str(<<>>)
  /\ normOut.rec[k_id] = Null
  /\ normOut.rec[k_outlet] = Null

-----------------------------------------------------------------------------
(* Properties of parseSimpleFilter (SpecParse).                            *)

\* s without the whitespace before its first and after its last character
\* that is no whitespace.
RefTrim(s) ==
  LET ns == {i \in 1..Len(s) : s[i] \notin WhiteSpace}
  IN  IF ns = {} THEN <<>>
      ELSE SubSeq(s, CHOOSE i \in ns : \A j \in ns : i <= j,
                     CHOOSE i \in ns : \A j \in ns : j <= i)

\* The ways to read t as <field> eq <value>: word characters, whitespace,
\* eq, whitespace, and the rest.  Each is <<field, value>>.
RefReadings(t) ==
  {<<SubSeq(t, 1, a), SubSeq(t, c + 1, Len(t))>> :
     <<a, b, c>> \in {x \in (1..Len(t)) \X (1..Len(t)) \X (1..Len(t)) :
                        /\ x[1] < x[2]
                        /\ x[2] + 3 <= x[3]
                        /\ \A i \in 1..x[1] : t[i] \in WordChar
                        /\ \A i \in (x[1] + 1)..x[2] : t[i] \in WhiteSpace
                        /\ t[x[2] + 1] = "e"
                        /\ t[x[2] + 2] = "q"
                        /\ \A i \in (x[2] + 3)..x[3] : t[i] \in WhiteSpace}}

\* '<string>' with no quote between the quotes.
IsQuoted(v) ==
  /\ Len(v) >= 2
  /\ v[1] = "'"
  /\ v[Len(v)] = "'"
  /\ \A i \in 2..(Len(v) - 1) : v[i] # "'"

\* Digits after an optional sign, then optionally a point and digits.
IsNumeral(v) ==
  \E s \in {0, 1}, e \in 1..Len(v) :
    /\ s < e
    /\ s = 1 => v[1] \in {"+", "-"}
    /\ \A i \in (s + 1)..e : v[i] \in Digit
    /\ \/ e = Len(v)
       \/ (e + 2 <= Len(v) /\ v[e + 1] = "." /\ \A i \in (e + 2)..Len(v) : v[i] \in Digit)

\* YYYY-MM-DD
IsDate(v) ==
  /\ Len(v) = 10
  /\ \A i \in {1, 2, 3, 4, 6, 7, 9, 10} : v[i] \in Digit
  /\ v[5] = "-"
  /\ v[8] = "-"

\* C4: for an absent, empty or any string $filter, parseSimpleFilter returns
\* null or one predicate and never fails; after trimming, <field> eq
\* '<string>' gives a string predicate with the text between the quotes,
\* <field> eq <number> a number predicate with the numeric value, <field> eq
\* <YYYY-MM-DD> a date predicate with the date string; the field is made of
\* word characters; a string of none of the three forms gives null.
C4_ParserContract ==
  (fResult.done /\ fInput.t \in {"undefined", "string"}) =>
    LET r == fResult.val
        readings == RefReadings(RefTrim(fInput.s))
    IN  /\ r.kind \in {"null", "predicate"}
        /\ (r.kind = "predicate")
             = (\E h \in readings : IsQuoted(h[2]) \/ IsNumeral(h[2]) \/ IsDate(h[2]))
        /\ r.kind = "predicate" => (r.field # <<>> /\ \A i \in 1..Len(r.field) : r.field[i] \in WordChar)
        /\ \A h \in readings :
             /\ IsQuoted(h[2]) =>
                  r = Predicate(h[1], Str(SubSeq(h[2], 2, Len(h[2]) - 1)), "string")
             /\ IsNumeral(h[2]) =>
                  (r = Predicate(h[1], StringToNumber(h[2]), "number") /\ r.value.t = "number")
             /\ IsDate(h[2]) => r = Predicate(h[1], Str(h[2]), "date")

\* C4 witness: " id \teq -4.50 " has been parsed to the number predicate
\* id = -4.5.
C4_Witness ==
  /\ fResult.done
  /\ fInput = Str(<<" ", "i", "d", " ", "\t", "e", "q", " ", "-", "4", ".", "5", "0", " ">>)
  /\ fResult.val = Predicate(<<"i", "d">>, Num(TRUE, 4, <<5>>), "number")

-----------------------------------------------------------------------------
(* Properties of the inbound gate (SpecAuth).                              *)

\* Both inbound credentials are configured.
Configured ==
  /\ cfg.ODATA_USER.t = "string" /\ cfg.ODATA_USER.s # <<>>
  /\ cfg.ODATA_PASS.t = "string" /\ cfg.ODATA_PASS.s # <<>>

\* The header is of the Basic scheme and its credentials decode to the
\* configured user, a colon, and the configured password.
ValidCredentials(h) ==
  /\ h.t = "string"
  /\ Len(h.s) >= 6
  /\ SubSeq(h.s, 1, 6) = <<"B", "a", "s", "i", "c", " ">>
  /\ ":" \notin {cfg.ODATA_USER.s[i] : i \in 1..Len(cfg.ODATA_USER.s)}
  /\ BytesToString(Base64Decode(SubSeq(h.s, 7, Len(h.s))))
       = cfg.ODATA_USER.s \o <<":">> \o cfg.ODATA_PASS.s

\* Request r was answered 401 with the challenge and reached neither a
\* handler nor the upstream.
Rejected(r) ==
  /\ pc[r] = "done"
  /\ res[r].status = 401
  /\ "WWW-Authenticate: Basic realm=\"OData\"" \in res[r].headers
  /\ nfetch[r] = 0
  /\ up[r] = NoUpstream

\* Request r reached its route handler.
Handled(r) ==
  /\ res[r].status # 401
  /\ path[r] = "$metadata" => (pc[r] = "done" /\ res[r] = MetadataResponse /\ nfetch[r] = 0)
  /\ path[r] = "Transactions" => nfetch[r] = 1

\* C5: with both credentials configured, a request under /odata reaches a
\* handler only with a Basic header whose decoded user and password are the
\* configured ones, and every other request is answered 401 with the
\* challenge and reaches neither handler nor upstream; with credentials not
\* configured every request passes the gate.
C5_AuthGate ==
  \A r \in Reqs :
    pc[r] # "idle" =>
      IF Configured /\ ~ValidCredentials(hdr[r]) THEN Rejected(r) ELSE Handled(r)

\* C5 witness: with u / p configured, a request with the Basic credentials
\* u:x has been answered 401 without a fetch.
C5_Witness ==
  \E r \in Reqs :
    /\ cfg = Config(Str(<<"u">>), Str(<<"p">>))
    /\ hdr[r] = BasicHeader(<<"u", ":", "x">>)
    /\ Rejected(r)

-----------------------------------------------------------------------------
(* Properties of the request handler (Spec, FairSpec).                     *)

\* C6: every Transactions request that has called the upstream eventually
\* receives a response, whether the upstream hangs before its status or
\* while its body is read.
C6_EveryRequestAnswered ==
  \A r \in Reqs : (pc[r] \in {"fetching", "reading"}) ~> (pc[r] = "done")

\* Request r is a Transactions request that passed the gate.
PassedGate(r) == pc[r] # "idle" /\ path[r] = "Transactions" /\ res[r].status # 401

\* The responses the whole pipeline gives for request r.
PipelineResponses(r) == {run.res : run \in HandleData(query[r], up[r].data)}

\* C7: a Transactions request that passed the gate makes exactly one fetch
\* and sends at most one response, exactly one once the handler has ended; an
\* upstream status that is not 2xx gives 500 with that status and no
\* records, an exception gives 500 with the message, and records are sent
\* only in a 200 response that is the result of the whole pipeline.
C7_OneFetchOneResponse ==
  \A r \in Reqs :
    /\ nfetch[r] <= 1
    /\ nresp[r] <= 1
    /\ (nresp[r] = 1) = (pc[r] = "done")
    /\ PassedGate(r) => nfetch[r] = 1
    /\ (PassedGate(r) /\ pc[r] = "done") =>
         IF up[r].failed \in {"network", "json"}
         THEN res[r].status = 500 /\ res[r].keys = {"error"} /\ res[r].error # ""
         ELSE IF up[r].failed = "timeout"
         THEN res[r].status = 504 /\ res[r].keys = {"error"}
         ELSE IF up[r].status < 200 \/ up[r].status > 299
         THEN /\ res[r].status = 500
              /\ res[r].keys = {"error", "status"}
              /\ res[r].upstream = up[r].status
         ELSE res[r] \in PipelineResponses(r)
    /\ "value" \in res[r].keys =>
         /\ res[r].status = 200
         /\ up[r].failed = "no"
         /\ up[r].status >= 200 /\ up[r].status <= 299
         /\ res[r] \in PipelineResponses(r)

\* C7 witness: the upstream answered 503 and the request was answered 500
\* with the upstream status, after one fetch and with one response.
C7_Witness ==
  \E r \in Reqs :
    /\ up[r].status = 503
    /\ res[r].status = 500
    /\ res[r].upstream = 503
    /\ "value" \notin res[r].keys
    /\ nfetch[r] = 1
    /\ nresp[r] = 1

\* Everything the service holds for request o.
ReqState(o) ==
  <<pc[o], path[o], hdr[o], query[o], timer[o], nfetch[o], nresp[o], up[o], res[o]>>

\* A step is of one request r: the configuration and what the other
\* requests hold are unchanged, and the records r returns are those its own
\* query gives on the snapshot it fetched.
IsolatedStep ==
  /\ cfg' = cfg
  /\ \E r \in Reqs :
       /\ \A o \in Reqs \ {r} : ReqState(o)' = ReqState(o)
       /\ (pc[r] = "reading" /\ pc'[r] = "done" /\ up'[r].failed = "no") =>
            res'[r] \in {run.res : run \in HandleData(query[r], up'[r].data)}

\* Two requests with the same query on the same upstream data got the same
\* response.
SameQuerySameResponse ==
  \A r1 \in Reqs, r2 \in Reqs :
    (/\ "value" \in res[r1].keys
     /\ "value" \in res[r2].keys
     /\ query[r1] = query[r2]
     /\ up[r1].data = up[r2].data) => res[r1] = res[r2]

\* C9: requests share no mutable state: in every interleaving each step
\* changes one request only and never the configuration, each response is
\* the one the request's query gives alone on the snapshot it fetched, and
\* the same query on the same data gives the same response.
C9_NoSharedState == []SameQuerySameResponse /\ [][IsolatedStep]_vars

\* C9 witness: a request has been answered its records while another, with
\* a different query, is still reading its body.
C9_Witness ==
  \E r1 \in Reqs, r2 \in Reqs :
    /\ pc[r1] = "reading"
    /\ pc[r2] = "done"
    /\ "value" \in res[r2].keys
    /\ res[r2].value # <<>>
    /\ query[r1] # query[r2]

====
